---- MODULE Spec2Model ----
(***************************************************************************)
(* A model of tklog's rotating file sink helpers (src/src/lib.rs):         *)
(* the time-mode rotation test passtimemode, the archive stamp             *)
(* getbackup_with_time, the clock reading timesec, and the two             *)
(* compression routines gzip and async_gzip.                               *)
(*                                                                         *)
(* The sink that calls the helpers (handle.rs / syncfile.rs) is modelled   *)
(* from the written design, section 4.3: check, rotate, append.            *)
(***************************************************************************)
EXTENDS Integers, Sequences, FiniteSets, TLC

VARIABLES
    now,        \* Local::now().naive_local(): the wall clock, as calendar fields
    ticks,      \* number of clock advances so far (bounded)
    mode,       \* MODE of the sink: "HOUR", "DAY" or "MONTH"
    opened_at,  \* startsec: the u64 timestamp at which the active file was opened
    active,     \* bytes of the active file
    archives,   \* the rotated-out files, oldest first
    nwritten,   \* number of lines handed to the sink so far
    writtenAt,  \* history: line id -> clock reading when it was written
    openedCal,  \* history: clock reading from which opened_at was taken
    firstCal,   \* history: clock reading when the sink was created
    chk,        \* history: the last evaluation of passtimemode
    disk,       \* per compression routine: the files <filename> and <filename>.gz
    pc,         \* per compression routine: the statement it is at
    ret,        \* per compression routine: the io::Result it returned
    mem,        \* per compression routine: its local buffers
    failed,     \* history: per routine, the step that failed ("none" if none)
    failAt,     \* input: the step at which the environment makes the run fail
    cut,        \* input: how many bytes a failing write gets through
    src0,       \* history: the content of <filename> when the run started
    gz0,        \* history: the content of <filename>.gz when the run started
    threshold,  \* Logger: the level threshold of the calling module (get_level)
    lockHolder, \* Mutex<Logger>: the thread holding the guard, NoThread if free
    lpc,        \* per thread: where it is in a logging macro invocation
    call,       \* per thread: its invocation (level, macro, what it has done)
    ncalls,     \* number of macro invocations started so far (bounded)
    acquired,   \* history: the invocations in the order they took the lock
    printed,    \* the lines handed to Logger::print, in order
    format_str, \* parse_and_format_log: the format string, as characters
    args,       \* parse_and_format_log: the level, time, file and message arguments
    ppos,       \* parse_and_format_log: index of the next character of the scan
    in_placeholder, \* parse_and_format_log: inside a `{...}`
    placeholder,    \* parse_and_format_log: the name collected since the `{`
    result,     \* parse_and_format_log: the output built so far
    returned    \* parse_and_format_log: the String it returned, NotReturned before

sinkvars == <<now, ticks, mode, opened_at, active, archives, nwritten,
              writtenAt, openedCal, firstCal, chk>>

gzvars == <<disk, pc, ret, mem, failed, failAt, cut, src0, gz0>>

logvars == <<threshold, lockHolder, lpc, call, ncalls, acquired, printed>>

parsevars == <<format_str, args, ppos, in_placeholder, placeholder, result, returned>>

----------------------------------------------------------------------------
(* Bounds of the exploration *)
MaxTicks == 3
MaxWrites == 3
MaxSrcLen == 2
MaxCut == 2
NThreads == 2
MaxCalls == 2
MaxTokens == 3

----------------------------------------------------------------------------
(* The calendar of the wall clock (chrono::Local::now)                     *)

MODES == {"HOUR", "DAY", "MONTH"}

IsLeap(y) == (y % 4 = 0 /\ y % 100 # 0) \/ y % 400 = 0

DaysInMonth(y, m) ==
    IF m = 2 THEN (IF IsLeap(y) THEN 29 ELSE 28)
    ELSE IF m \in {4, 6, 9, 11} THEN 30 ELSE 31

Cal(y, mo, d, h, mi, s) ==
    [year |-> y, month |-> mo, day |-> d, hour |-> h, minute |-> mi, second |-> s]

NextDay(c) ==
    IF c.day < DaysInMonth(c.year, c.month) THEN [c EXCEPT !.day = @ + 1]
    ELSE IF c.month < 12 THEN [c EXCEPT !.day = 1, !.month = @ + 1]
    ELSE [c EXCEPT !.day = 1, !.month = 1, !.year = @ + 1]

NextHour(c) ==
    IF c.hour < 23 THEN [c EXCEPT !.hour = @ + 1]
    ELSE NextDay([c EXCEPT !.hour = 0])

NextHalfHour(c) ==
    IF c.minute < 30 THEN [c EXCEPT !.minute = @ + 30]
    ELSE NextHour([c EXCEPT !.minute = @ - 30])

RECURSIVE AddDays(_, _)
AddDays(c, n) == IF n = 0 THEN c ELSE AddDays(NextDay(c), n - 1)

\* The amounts by which the clock is advanced between two operations.
STEPS == {"halfhour", "hour", "day", "month"}

Advance(c, step) ==
    CASE step = "halfhour" -> NextHalfHour(c)
      [] step = "hour"     -> NextHour(c)
      [] step = "day"      -> NextDay(c)
      [] step = "month"    -> AddDays(c, 30)

\* The instants at which a sink is created.
STARTS == { Cal(2023, 12, 31, 22, 40, 15),
            Cal(2024, 2, 28, 23, 10, 0),
            Cal(2023, 10, 30, 9, 0, 59) }

----------------------------------------------------------------------------
(* Timestamps: NaiveDateTime <-> seconds since 1970-01-01                   *)

\* NaiveDateTime::and_utc().timestamp(): days since the epoch of a civil date
DaysFromCivil(y0, m, d) ==
    LET y   == IF m <= 2 THEN y0 - 1 ELSE y0
        era == y \div 400
        yoe == y - era * 400
        mp  == IF m > 2 THEN m - 3 ELSE m + 9
        doy == (153 * mp + 2) \div 5 + d - 1
        doe == yoe * 365 + yoe \div 4 - yoe \div 100 + doy
    IN  era * 146097 + doe - 719468

\* DateTime::from_timestamp: the civil date of a day number
CivilFromDays(days) ==
    LET z   == days + 719468
        era == z \div 146097
        doe == z - era * 146097
        yoe == (doe - doe \div 1460 + doe \div 36524 - doe \div 146096) \div 365
        doy == doe - (365 * yoe + yoe \div 4 - yoe \div 100)
        mp  == (5 * doy + 2) \div 153
        d   == doy - (153 * mp + 2) \div 5 + 1
        m   == IF mp < 10 THEN mp + 3 ELSE mp - 9
        y   == yoe + era * 400
    IN  [year |-> IF m <= 2 THEN y + 1 ELSE y, month |-> m, day |-> d]

Timestamp(c) ==
    DaysFromCivil(c.year, c.month, c.day) * 86400
        + c.hour * 3600 + c.minute * 60 + c.second

from_timestamp(secs) ==
    LET date == CivilFromDays(secs \div 86400)
        rem  == secs % 86400
    IN  Cal(date.year, date.month, date.day,
            rem \div 3600, (rem % 3600) \div 60, rem % 60)

\* fn timesec() -> u64
timesec == Timestamp(now)

----------------------------------------------------------------------------
(* fn passtimemode(startsec: u64, timemode: MODE) -> bool                   *)

passtimemode_ge(startsec, timemode) ==
    LET start_time == from_timestamp(startsec)
    IN  CASE timemode = "HOUR"  -> now.hour >= start_time.hour
          [] timemode = "DAY"   -> now.day >= start_time.day
          [] timemode = "MONTH" -> now.month >= start_time.month

passtimemode(startsec, timemode) ==
    LET start_time == from_timestamp(startsec)
    IN  CASE timemode = "HOUR"  -> now.hour > start_time.hour
          [] timemode = "DAY"   -> now.day > start_time.day
          [] timemode = "MONTH" -> now.month > start_time.month

\* passtimemode as it would answer if Local::now() returned `clock`
passtimemode_at(startsec, timemode, clock) ==
    LET start_time == from_timestamp(startsec)
    IN  CASE timemode = "HOUR"  -> clock.hour > start_time.hour
          [] timemode = "DAY"   -> clock.day > start_time.day
          [] timemode = "MONTH" -> clock.month > start_time.month

----------------------------------------------------------------------------
(* fn getbackup_with_time(startsec: u64, timemode: MODE) -> String          *)

RECURSIVE Pow10(_)
Pow10(n) == IF n = 0 THEN 1 ELSE 10 * Pow10(n - 1)

\* "%Y", "%m", "%d", "%H": a number as w zero-padded decimal digits
Digits(n, w) == [i \in 1..w |-> (n \div Pow10(w - i)) % 10]

getbackup_dayfirst(startsec, timemode) ==
    LET start_time == from_timestamp(startsec)
        Y == Digits(start_time.year, 4)
        m == Digits(start_time.month, 2)
        d == Digits(start_time.day, 2)
        H == Digits(start_time.hour, 2)
    IN  CASE timemode = "HOUR"  -> Y \o d \o m \o H
          [] timemode = "DAY"   -> Y \o d \o m
          [] timemode = "MONTH" -> Y \o m

getbackup_no_hour(startsec, timemode) ==
    LET start_time == from_timestamp(startsec)
        Y == Digits(start_time.year, 4)
        m == Digits(start_time.month, 2)
        d == Digits(start_time.day, 2)
    IN  CASE timemode = "HOUR"  -> Y \o m \o d
          [] timemode = "DAY"   -> Y \o m \o d
          [] timemode = "MONTH" -> Y \o m

getbackup_with_time(startsec, timemode) ==
    LET start_time == from_timestamp(startsec)
        Y == Digits(start_time.year, 4)
        m == Digits(start_time.month, 2)
        d == Digits(start_time.day, 2)
        H == Digits(start_time.hour, 2)
    IN  CASE timemode = "HOUR"  -> Y \o m \o d \o H
          [] timemode = "DAY"   -> Y \o m \o d
          [] timemode = "MONTH" -> Y \o m

----------------------------------------------------------------------------
(* The sink (design section 4.3): one write = check, rotate if due, append  *)

NL == 0                       \* the line terminator byte
Line(id) == <<id, NL>>        \* a formatted line: its payload and its newline

NoCheck == [done |-> FALSE]

\* ArchiveNamer (design section 4.2): the stamp, and a counter on a collision
SameStamp(stamp) == {i \in 1..Len(archives) : archives[i].stamp = stamp}

ArchiveOf(stamp, content) ==
    [stamp |-> stamp, seq |-> Cardinality(SameStamp(stamp)), content |-> content,
     openedCal |-> openedCal, rotatedCal |-> now, lastWriteIn |-> nwritten]

RotateDropsActive(line) ==
    /\ archives' = Append(archives,
           ArchiveOf(getbackup_with_time(opened_at, mode), <<>>))
    /\ active' = line
    /\ opened_at' = timesec
    /\ openedCal' = now

\* close -> rename to the backup name -> open a fresh file -> append
Rotate(line) ==
    /\ archives' = Append(archives,
           ArchiveOf(getbackup_with_time(opened_at, mode), active))
    /\ active' = line
    /\ opened_at' = timesec
    /\ openedCal' = now

Write ==
    /\ nwritten < MaxWrites
    /\ LET id  == nwritten + 1
           due == passtimemode(opened_at, mode)
       IN  /\ nwritten' = id
           /\ writtenAt' = [writtenAt EXCEPT ![id] = now]
           /\ chk' = [done |-> TRUE, mode |-> mode, start |-> openedCal,
                      startsec |-> opened_at, at |-> now, res |-> due]
           /\ IF due
                THEN Rotate(Line(id))
                ELSE /\ active' = active \o Line(id)
                     /\ UNCHANGED <<archives, opened_at, openedCal>>
    /\ UNCHANGED <<now, ticks, mode, firstCal>>

\* The wall clock moves on between two writes.
Tick ==
    /\ ticks < MaxTicks
    /\ \E step \in STEPS : now' = Advance(now, step)
    /\ ticks' = ticks + 1
    /\ UNCHANGED <<mode, opened_at, active, archives, nwritten, writtenAt,
                   openedCal, firstCal, chk>>

InitSink ==
    /\ now \in STARTS
    /\ ticks = 0
    /\ mode \in MODES
    /\ opened_at = timesec
    /\ active = <<>>
    /\ archives = <<>>
    /\ nwritten = 0
    /\ writtenAt = [id \in 1..(MaxWrites + 1) |-> now]
    /\ openedCal = now
    /\ firstCal = now
    /\ chk = NoCheck

----------------------------------------------------------------------------
(* fn gzip(filename) and async fn async_gzip(filename)                      *)

FLAVORS == {"sync", "async"}
Absent == <<-1>>              \* the content of a file that does not exist

\* The points at which a run can fail.
FAILPOINTS == {"none", "open", "read", "encode", "finish", "create", "write", "remove"}

Min(a, b) == IF a < b THEN a ELSE b

RECURSIVE SeqsUpTo(_)
SeqsUpTo(n) ==
    IF n = 0 THEN {<<>>}
    ELSE LET shorter == SeqsUpTo(n - 1)
         IN  shorter \cup {Append(q, b) : q \in {r \in shorter : Len(r) = n - 1}, b \in {1, 2}}

\* GzEncoder: the gzip container of the data: magic bytes, the body, the size
GzEncode(data) == <<31, 139>> \o data \o <<Len(data)>>

\* What a write that fails leaves behind: a proper prefix of the bytes
Partial(bytes) == SubSeq(bytes, 1, Min(cut, Len(bytes) - 1))

\* File::create truncates an existing file and creates a missing one.
FileCreate(f) == [disk EXCEPT ![f].gz = <<>>]

DoneWith(f, outcome) ==
    /\ pc' = [pc EXCEPT ![f] = "done"]
    /\ ret' = [ret EXCEPT ![f] = outcome]

FailedAt(f, step) == failed' = [failed EXCEPT ![f] = step]

Goto(f, label) ==
    /\ pc' = [pc EXCEPT ![f] = label]
    /\ UNCHANGED ret

\* line 158: File::open(filename)?
gzip_open ==
    /\ pc["sync"] = "start"
    /\ IF failAt = "open" \/ disk["sync"].src = Absent
         THEN DoneWith("sync", "Err") /\ FailedAt("sync", "open")
         ELSE Goto("sync", "opened") /\ UNCHANGED failed
    /\ UNCHANGED <<disk, mem, failAt, cut, src0, gz0>>

\* lines 159-160: io::copy(&mut input_file, &mut encoder)?
gzip_copy ==
    /\ pc["sync"] = "opened"
    /\ IF failAt = "read"
         THEN DoneWith("sync", "Err") /\ FailedAt("sync", "read") /\ UNCHANGED mem
         ELSE IF failAt = "encode" /\ disk["sync"].src # <<>>
         THEN DoneWith("sync", "Err") /\ FailedAt("sync", "encode") /\ UNCHANGED mem
         ELSE /\ Goto("sync", "copied")
              /\ mem' = [mem EXCEPT !["sync"].input = disk["sync"].src]
              /\ UNCHANGED failed
    /\ UNCHANGED <<disk, failAt, cut, src0, gz0>>

\* line 161: encoder.finish()?
gzip_finish ==
    /\ pc["sync"] = "copied"
    /\ IF failAt = "finish"
         THEN DoneWith("sync", "Err") /\ FailedAt("sync", "finish") /\ UNCHANGED mem
         ELSE /\ Goto("sync", "finished")
              /\ mem' = [mem EXCEPT !["sync"].compressed_data = GzEncode(mem["sync"].input)]
              /\ UNCHANGED failed
    /\ UNCHANGED <<disk, failAt, cut, src0, gz0>>

\* lines 162-163: File::create(&output_filename)?
gzip_create ==
    /\ pc["sync"] = "finished"
    /\ IF failAt = "create"
         THEN DoneWith("sync", "Err") /\ FailedAt("sync", "create") /\ UNCHANGED disk
         ELSE /\ Goto("sync", "created")
              /\ disk' = FileCreate("sync")
              /\ UNCHANGED failed
    /\ UNCHANGED <<mem, failAt, cut, src0, gz0>>

\* line 164: let ack = output_file.write_all(&compressed_data)
gzip_write ==
    /\ pc["sync"] = "created"
    /\ IF failAt = "write"
         THEN /\ disk' = [disk EXCEPT !["sync"].gz = Partial(mem["sync"].compressed_data)]
              /\ mem' = [mem EXCEPT !["sync"].ack = "Err"]
              /\ FailedAt("sync", "write")
         ELSE /\ disk' = [disk EXCEPT !["sync"].gz = mem["sync"].compressed_data]
              /\ mem' = [mem EXCEPT !["sync"].ack = "Ok"]
              /\ UNCHANGED failed
    /\ Goto("sync", "written")
    /\ UNCHANGED <<failAt, cut, src0, gz0>>

\* lines 165-168: if ack.is_ok() { let _ = fs::remove_file(filename); } Ok(())
gzip_remove ==
    /\ pc["sync"] = "written"
    /\ IF mem["sync"].ack = "Ok"
         THEN IF failAt = "remove"
                THEN UNCHANGED disk /\ FailedAt("sync", "remove")
                ELSE disk' = [disk EXCEPT !["sync"].src = Absent] /\ UNCHANGED failed
         ELSE UNCHANGED <<disk, failed>>
    /\ DoneWith("sync", "Ok")
    /\ UNCHANGED <<mem, failAt, cut, src0, gz0>>

\* line 172: tokio::fs::File::open(filename).await?
async_gzip_open ==
    /\ pc["async"] = "start"
    /\ IF failAt = "open" \/ disk["async"].src = Absent
         THEN DoneWith("async", "Err") /\ FailedAt("async", "open")
         ELSE Goto("async", "opened") /\ UNCHANGED failed
    /\ UNCHANGED <<disk, mem, failAt, cut, src0, gz0>>

\* lines 173-174: input_file.read_to_end(&mut file_content).await?
async_gzip_read ==
    /\ pc["async"] = "opened"
    /\ IF failAt = "read"
         THEN DoneWith("async", "Err") /\ FailedAt("async", "read") /\ UNCHANGED mem
         ELSE /\ Goto("async", "read")
              /\ mem' = [mem EXCEPT !["async"].file_content = disk["async"].src]
              /\ UNCHANGED failed
    /\ UNCHANGED <<disk, failAt, cut, src0, gz0>>

\* lines 175-176: let _ = encoder.write_all(&file_content)  (the Result is dropped)
async_gzip_encode ==
    /\ pc["async"] = "read"
    /\ IF failAt = "encode" /\ mem["async"].file_content # <<>>
         THEN /\ mem' = [mem EXCEPT !["async"].input = Partial(mem["async"].file_content)]
              /\ FailedAt("async", "encode")
         ELSE /\ mem' = [mem EXCEPT !["async"].input = mem["async"].file_content]
              /\ UNCHANGED failed
    /\ Goto("async", "copied")
    /\ UNCHANGED <<disk, failAt, cut, src0, gz0>>

\* line 177: encoder.finish()?
async_gzip_finish ==
    /\ pc["async"] = "copied"
    /\ IF failAt = "finish"
         THEN DoneWith("async", "Err") /\ FailedAt("async", "finish") /\ UNCHANGED mem
         ELSE /\ Goto("async", "finished")
              /\ mem' = [mem EXCEPT !["async"].compressed_data = GzEncode(mem["async"].input)]
              /\ UNCHANGED failed
    /\ UNCHANGED <<disk, failAt, cut, src0, gz0>>

\* lines 178-179: tokio::fs::File::create(output_filename).await?
async_gzip_create ==
    /\ pc["async"] = "finished"
    /\ IF failAt = "create"
         THEN DoneWith("async", "Err") /\ FailedAt("async", "create") /\ UNCHANGED disk
         ELSE /\ Goto("async", "created")
              /\ disk' = FileCreate("async")
              /\ UNCHANGED failed
    /\ UNCHANGED <<mem, failAt, cut, src0, gz0>>

\* line 180: write_all(&mut output_file, &compressed_data).await?
async_gzip_write ==
    /\ pc["async"] = "created"
    /\ IF failAt = "write"
         THEN /\ disk' = [disk EXCEPT !["async"].gz = Partial(mem["async"].compressed_data)]
              /\ DoneWith("async", "Err")
              /\ FailedAt("async", "write")
         ELSE /\ disk' = [disk EXCEPT !["async"].gz = mem["async"].compressed_data]
              /\ Goto("async", "written")
              /\ UNCHANGED failed
    /\ UNCHANGED <<mem, failAt, cut, src0, gz0>>

\* lines 181-182: tokio::fs::remove_file(filename).await?; Ok(())
async_gzip_remove ==
    /\ pc["async"] = "written"
    /\ IF failAt = "remove"
         THEN UNCHANGED disk /\ DoneWith("async", "Err") /\ FailedAt("async", "remove")
         ELSE /\ disk' = [disk EXCEPT !["async"].src = Absent]
              /\ DoneWith("async", "Ok")
              /\ UNCHANGED failed
    /\ UNCHANGED <<mem, failAt, cut, src0, gz0>>

NoBuffers == [file_content |-> <<>>, input |-> <<>>, compressed_data |-> <<>>, ack |-> "none"]

\* Both routines are started on the same files, with the same failure point.
InitGzip ==
    /\ src0 \in SeqsUpTo(MaxSrcLen)
    /\ gz0 \in {Absent, GzEncode(<<7>>)}
    /\ failAt \in FAILPOINTS
    /\ cut \in 0..MaxCut
    /\ disk = [f \in FLAVORS |-> [src |-> src0, gz |-> gz0]]
    /\ pc = [f \in FLAVORS |-> "start"]
    /\ ret = [f \in FLAVORS |-> "none"]
    /\ mem = [f \in FLAVORS |-> NoBuffers]
    /\ failed = [f \in FLAVORS |-> "none"]

\* No compression is running.
IdleGzip ==
    /\ src0 = <<>>
    /\ gz0 = Absent
    /\ failAt = "none"
    /\ cut = 0
    /\ disk = [f \in FLAVORS |-> [src |-> Absent, gz |-> Absent]]
    /\ pc = [f \in FLAVORS |-> "idle"]
    /\ ret = [f \in FLAVORS |-> "none"]
    /\ mem = [f \in FLAVORS |-> NoBuffers]
    /\ failed = [f \in FLAVORS |-> "none"]

\* No sink is writing.
IdleSink ==
    /\ now = Cal(2023, 12, 31, 22, 40, 15)
    /\ ticks = 0
    /\ mode = "DAY"
    /\ opened_at = timesec
    /\ active = <<>>
    /\ archives = <<>>
    /\ nwritten = 0
    /\ writtenAt = [id \in 1..(MaxWrites + 1) |-> now]
    /\ openedCal = now
    /\ firstCal = now
    /\ chk = NoCheck

----------------------------------------------------------------------------
(* The logging macros of syncmulti.rs on one Arc<Mutex<Logger>>             *)

\* enum LEVEL, #[repr(u8)], #[derive(PartialOrd)]
Trace == 1
Debug == 2
Info == 3
Warn == 4
Error == 5
Fatal == 6
Off == 7

LEVEL == {Trace, Debug, Info, Warn, Error, Fatal, Off}

THREADS == 1..NThreads
NoThread == 0

\* traces! .. fatals! expand to logs_common! with their own level;
\* formats! takes the level as an argument.
MacroLevels(macro) ==
    IF macro = "logs_common" THEN {Trace, Debug, Info, Warn, Error, Fatal} ELSE LEVEL

NoCall ==
    [n |-> 0, returned |-> FALSE, level |-> Trace, seen |-> Off,
     fmtCalled |-> FALSE, printCalled |-> FALSE, ss |-> <<>>]

\* A thread reaches a macro invocation and blocks on the mutex. Which macro it
\* is, at which level, and what Logger::fmt returns for it, are drawn where the
\* code first reads them (the check, the call of fmt): nothing observes them
\* earlier.
macro_call(t) ==
    /\ lpc[t] = "idle"
    /\ ncalls < MaxCalls
    /\ call' = [call EXCEPT ![t] = [NoCall EXCEPT !.n = ncalls + 1]]
    /\ ncalls' = ncalls + 1
    /\ lpc' = [lpc EXCEPT ![t] = "waiting"]
    /\ UNCHANGED <<threshold, lockHolder, acquired, printed>>

macro_lock_unguarded(t) ==
    /\ lpc[t] = "waiting"
    /\ lockHolder' = t
    /\ acquired' = Append(acquired, call[t].n)
    /\ lpc' = [lpc EXCEPT ![t] = "locked"]
    /\ UNCHANGED <<threshold, call, ncalls, printed>>

\* lines 78 / 102: let mut logger = log.lock().unwrap();
macro_lock(t) ==
    /\ lpc[t] = "waiting"
    /\ lockHolder = NoThread
    /\ lockHolder' = t
    /\ acquired' = Append(acquired, call[t].n)
    /\ lpc' = [lpc EXCEPT ![t] = "locked"]
    /\ UNCHANGED <<threshold, call, ncalls, printed>>

\* lines 80 / 104: if logger.get_level(module) <= level
macro_check(t) ==
    /\ lpc[t] = "locked"
    /\ \E macro \in {"logs_common", "formats"} :
         \E level \in MacroLevels(macro) :
           /\ call' = [call EXCEPT ![t].level = level, ![t].seen = threshold]
           /\ lpc' = [lpc EXCEPT ![t] = IF threshold <= level THEN "fmt" ELSE "end"]
    /\ UNCHANGED <<threshold, lockHolder, ncalls, acquired, printed>>

\* lines 81-87 / 105-113: format the arguments, let ss = logger.fmt(..)
macro_fmt(t) ==
    /\ lpc[t] = "fmt"
    /\ \E empty \in BOOLEAN :
         call' = [call EXCEPT ![t].fmtCalled = TRUE,
                              ![t].ss = IF empty THEN <<>> ELSE <<call[t].n>>]
    /\ lpc' = [lpc EXCEPT ![t] = "fmted"]
    /\ UNCHANGED <<threshold, lockHolder, ncalls, acquired, printed>>

\* lines 88-90 / 114-116: if !ss.is_empty() { logger.print(level, module, ss) }
macro_print(t) ==
    /\ lpc[t] = "fmted"
    /\ IF call[t].ss # <<>>
         THEN /\ printed' = Append(printed, call[t].ss)
              /\ call' = [call EXCEPT ![t].printCalled = TRUE]
         ELSE UNCHANGED <<printed, call>>
    /\ lpc' = [lpc EXCEPT ![t] = "end"]
    /\ UNCHANGED <<threshold, lockHolder, ncalls, acquired>>

\* What stays of an invocation once it has returned: the path it took
Finished(c) ==
    [NoCall EXCEPT !.returned = TRUE, !.fmtCalled = c.fmtCalled,
                   !.printCalled = c.printCalled]

macro_unlock_if_printed(t) ==
    /\ lpc[t] = "end"
    /\ lockHolder' = IF call[t].printCalled THEN NoThread ELSE lockHolder
    /\ lpc' = [lpc EXCEPT ![t] = "idle"]
    /\ call' = [call EXCEPT ![t] = Finished(call[t])]
    /\ UNCHANGED <<threshold, ncalls, acquired, printed>>

\* lines 92 / 118: the guard `logger` is dropped at the end of the block
macro_unlock(t) ==
    /\ lpc[t] = "end"
    /\ lockHolder' = NoThread
    /\ lpc' = [lpc EXCEPT ![t] = "idle"]
    /\ call' = [call EXCEPT ![t] = Finished(call[t])]
    /\ UNCHANGED <<threshold, ncalls, acquired, printed>>

\* Some thread reconfigures the logger: log.lock().unwrap().set_level(level)
set_level ==
    /\ lockHolder = NoThread
    /\ \E level \in LEVEL \ {threshold} : threshold' = level
    /\ UNCHANGED <<lockHolder, lpc, call, ncalls, acquired, printed>>

InitLog ==
    /\ threshold \in LEVEL
    /\ lockHolder = NoThread
    /\ lpc = [t \in THREADS |-> "idle"]
    /\ call = [t \in THREADS |-> NoCall]
    /\ ncalls = 0
    /\ acquired = <<>>
    /\ printed = <<>>

\* No thread is logging.
IdleLog ==
    /\ threshold = Off
    /\ lockHolder = NoThread
    /\ lpc = [t \in THREADS |-> "idle"]
    /\ call = [t \in THREADS |-> NoCall]
    /\ ncalls = 0
    /\ acquired = <<>>
    /\ printed = <<>>

----------------------------------------------------------------------------
(* fn parse_and_format_log(format_str, level, time, file, message) -> String *)

W_level == <<"l", "e", "v", "e", "l">>
W_time == <<"t", "i", "m", "e">>
W_file == <<"f", "i", "l", "e">>
W_message == <<"m", "e", "s", "s", "a", "g", "e">>
W_other == <<"l", "v", "l">>

\* The pieces format strings are put together from.
TOKENS == { <<"{">>, <<"}">>, <<"a">>, W_level, W_time, W_file, W_message, W_other }

RECURSIVE FormatsUpTo(_)
FormatsUpTo(n) ==
    IF n = 0 THEN {<<>>}
    ELSE LET shorter == FormatsUpTo(n - 1)
         IN  shorter \cup {f \o tok : f \in shorter, tok \in TOKENS}

NotReturned == <<"?">>

scan_char_drops_brace ==
    /\ ppos <= Len(format_str)
    /\ LET c == format_str[ppos]
       IN  IF in_placeholder
             THEN IF c = "}"
                    THEN /\ in_placeholder' = FALSE
                         /\ result' = result \o
                              (CASE placeholder = W_level   -> args.level
                                 [] placeholder = W_time    -> args.time
                                 [] placeholder = W_file    -> args.file
                                 [] placeholder = W_message -> args.message
                                 [] OTHER                   -> <<>>)
                         /\ placeholder' = <<>>
                    ELSE /\ placeholder' = Append(placeholder, c)
                         /\ UNCHANGED <<in_placeholder, result>>
             ELSE IF c = "{"
                    THEN /\ in_placeholder' = TRUE
                         /\ UNCHANGED <<placeholder, result>>
                    ELSE /\ result' = IF c = "}" THEN result ELSE Append(result, c)
                         /\ UNCHANGED <<in_placeholder, placeholder>>
    /\ ppos' = ppos + 1
    /\ UNCHANGED <<format_str, args, returned>>

\* lines 196-216: one turn of `for c in format_str.chars()`
scan_char ==
    /\ ppos <= Len(format_str)
    /\ LET c == format_str[ppos]
       IN  IF in_placeholder
             THEN IF c = "}"
                    THEN /\ in_placeholder' = FALSE
                         /\ result' = result \o
                              (CASE placeholder = W_level   -> args.level
                                 [] placeholder = W_time    -> args.time
                                 [] placeholder = W_file    -> args.file
                                 [] placeholder = W_message -> args.message
                                 [] OTHER                   -> <<>>)
                         /\ placeholder' = <<>>
                    ELSE /\ placeholder' = Append(placeholder, c)
                         /\ UNCHANGED <<in_placeholder, result>>
             ELSE IF c = "{"
                    THEN /\ in_placeholder' = TRUE
                         /\ UNCHANGED <<placeholder, result>>
                    ELSE /\ result' = Append(result, c)
                         /\ UNCHANGED <<in_placeholder, placeholder>>
    /\ ppos' = ppos + 1
    /\ UNCHANGED <<format_str, args, returned>>

\* line 217: result
parse_return ==
    /\ ppos = Len(format_str) + 1
    /\ returned = NotReturned
    /\ returned' = result
    /\ UNCHANGED <<format_str, args, ppos, in_placeholder, placeholder, result>>

\* lines 192-194: the call and its locals
InitParse ==
    /\ format_str \in FormatsUpTo(MaxTokens)
    /\ args \in [level : {<<"I">>}, time : {<<"9">>}, file : {<<"x">>},
                 message : {<<>>, <<"m">>, <<"{">> \o W_time \o <<"}">>}]
    /\ ppos = 1
    /\ in_placeholder = FALSE
    /\ placeholder = <<>>
    /\ result = <<>>
    /\ returned = NotReturned

\* No format string is being parsed.
IdleParse ==
    /\ format_str = <<>>
    /\ args = [level |-> <<>>, time |-> <<>>, file |-> <<>>, message |-> <<>>]
    /\ ppos = 2
    /\ in_placeholder = FALSE
    /\ placeholder = <<>>
    /\ result = <<>>
    /\ returned = NotReturned

vars == <<sinkvars, gzvars, logvars, parsevars>>

(* The sink under the wall clock *)
Init == InitSink /\ IdleGzip /\ IdleLog /\ IdleParse

Next ==
    \/ Write /\ UNCHANGED <<gzvars, logvars, parsevars>>
    \/ Tick /\ UNCHANGED <<gzvars, logvars, parsevars>>

Spec == Init /\ [][Next]_vars

(* gzip and async_gzip, each run once on its own copy of the same files *)
InitGz == IdleSink /\ InitGzip /\ IdleLog /\ IdleParse

NextGz ==
    \/ gzip_open /\ UNCHANGED <<sinkvars, logvars, parsevars>>
    \/ gzip_copy /\ UNCHANGED <<sinkvars, logvars, parsevars>>
    \/ gzip_finish /\ UNCHANGED <<sinkvars, logvars, parsevars>>
    \/ gzip_create /\ UNCHANGED <<sinkvars, logvars, parsevars>>
    \/ gzip_write /\ UNCHANGED <<sinkvars, logvars, parsevars>>
    \/ gzip_remove /\ UNCHANGED <<sinkvars, logvars, parsevars>>
    \/ async_gzip_open /\ UNCHANGED <<sinkvars, logvars, parsevars>>
    \/ async_gzip_read /\ UNCHANGED <<sinkvars, logvars, parsevars>>
    \/ async_gzip_encode /\ UNCHANGED <<sinkvars, logvars, parsevars>>
    \/ async_gzip_finish /\ UNCHANGED <<sinkvars, logvars, parsevars>>
    \/ async_gzip_create /\ UNCHANGED <<sinkvars, logvars, parsevars>>
    \/ async_gzip_write /\ UNCHANGED <<sinkvars, logvars, parsevars>>
    \/ async_gzip_remove /\ UNCHANGED <<sinkvars, logvars, parsevars>>

SpecGzip == InitGz /\ [][NextGz]_vars

(* Threads logging through the macros on one shared logger *)
InitLogger == IdleSink /\ IdleGzip /\ InitLog /\ IdleParse

ThreadStep(t) ==
    \/ macro_call(t)
    \/ macro_lock(t)
    \/ macro_check(t)
    \/ macro_fmt(t)
    \/ macro_print(t)
    \/ macro_unlock(t)

NextLog ==
    \/ \E t \in THREADS : macro_call(t) /\ UNCHANGED <<sinkvars, gzvars, parsevars>>
    \/ \E t \in THREADS : macro_lock(t) /\ UNCHANGED <<sinkvars, gzvars, parsevars>>
    \/ \E t \in THREADS : macro_check(t) /\ UNCHANGED <<sinkvars, gzvars, parsevars>>
    \/ \E t \in THREADS : macro_fmt(t) /\ UNCHANGED <<sinkvars, gzvars, parsevars>>
    \/ \E t \in THREADS : macro_print(t) /\ UNCHANGED <<sinkvars, gzvars, parsevars>>
    \/ \E t \in THREADS : macro_unlock(t) /\ UNCHANGED <<sinkvars, gzvars, parsevars>>
    \/ set_level /\ UNCHANGED <<sinkvars, gzvars, parsevars>>

SpecLog == InitLogger /\ [][NextLog]_vars

\* Every thread that can take a step eventually takes one.
FairSpecLog ==
    SpecLog /\ \A t \in THREADS : WF_vars(ThreadStep(t) /\ UNCHANGED <<sinkvars, gzvars, parsevars>>)

(* parse_and_format_log called once on a format string *)
InitParser == IdleSink /\ IdleGzip /\ IdleLog /\ InitParse

NextParse ==
    \/ scan_char /\ UNCHANGED <<sinkvars, gzvars, logvars>>
    \/ parse_return /\ UNCHANGED <<sinkvars, gzvars, logvars>>

SpecParse == InitParser /\ [][NextParse]_vars

----------------------------------------------------------------------------
(* Helpers of the properties: calendar fields read off the clock history,   *)
(* never through from_timestamp.                                            *)

Field(timemode, c) ==
    CASE timemode = "HOUR"  -> c.hour
      [] timemode = "DAY"   -> c.day
      [] timemode = "MONTH" -> c.month

StampLen(timemode) ==
    CASE timemode = "HOUR" -> 10 [] timemode = "DAY" -> 8 [] timemode = "MONTH" -> 6

\* The number a calendar period is written as: YYYYMMDDHH, YYYYMMDD or YYYYMM
PeriodNumber(timemode, c) ==
    CASE timemode = "HOUR"  -> c.year * 1000000 + c.month * 10000 + c.day * 100 + c.hour
      [] timemode = "DAY"   -> c.year * 10000 + c.month * 100 + c.day
      [] timemode = "MONTH" -> c.year * 100 + c.month

RECURSIVE StampValue(_)
StampValue(s) ==
    IF s = <<>> THEN 0 ELSE 10 * StampValue(SubSeq(s, 1, Len(s) - 1)) + s[Len(s)]

IsPrefix(s, t) == Len(s) <= Len(t) /\ SubSeq(t, 1, Len(s)) = s

DayNumber(c) == DaysFromCivil(c.year, c.month, c.day)

\* All files of the sink, archives first, the active file last
Files ==
    [i \in 1..(Len(archives) + 1) |->
        IF i <= Len(archives) THEN archives[i].content ELSE active]

CountIn(f, id) == Cardinality({i \in 1..Len(f) : i % 2 = 1 /\ f[i] = id})

RECURSIVE TotalCount(_, _)
TotalCount(id, n) ==
    IF n = 0 THEN 0 ELSE CountIn(Files[n], id) + TotalCount(id, n - 1)

\* A file holds whole lines only: payload byte, newline, payload byte, newline, ...
WholeLines(f) ==
    /\ Len(f) % 2 = 0
    /\ \A i \in 1..Len(f) : IF i % 2 = 0 THEN f[i] = NL ELSE f[i] \in 1..nwritten

LinesOf(f) == {f[i] : i \in {j \in 1..Len(f) : j % 2 = 1}}

----------------------------------------------------------------------------
(* C1: passtimemode reports a rotation exactly when the mode's calendar     *)
(* field (hour of day, day of month, month of year) of the clock is         *)
(* strictly greater than the same field of the instant the file was opened; *)
(* no larger unit is looked at.                                             *)
C1_FieldStrictlyGreater ==
    chk.done => (chk.res <=> Field(chk.mode, chk.at) > Field(chk.mode, chk.start))

\* opened at hour 23, checked at hour 0 of the next day, HOUR mode: no rotation
C1_Witness ==
    /\ chk.done /\ chk.mode = "HOUR"
    /\ chk.start.hour = 23 /\ chk.at.hour = 0
    /\ DayNumber(chk.at) = DayNumber(chk.start) + 1
    /\ ~chk.res

(* C2: in DAY mode, when the writes since the sink was opened span exactly  *)
(* one midnight, exactly one rotation has occurred and its archive carries  *)
(* the YYYYMMDD stamp of the day before the boundary.                       *)
C2_OneArchivePerDayBoundary ==
    (/\ mode = "DAY" /\ nwritten > 0
     /\ DayNumber(writtenAt[nwritten]) = DayNumber(firstCal) + 1)
    => (/\ Len(archives) = 1
        /\ Len(archives[1].stamp) = 8
        /\ StampValue(archives[1].stamp) = PeriodNumber("DAY", firstCal))

(* C5: every written line appears exactly once over the archives and the    *)
(* active file, and every file holds whole lines only.                      *)
C5_NoLineLostOrDuplicated ==
    /\ \A id \in 1..nwritten : TotalCount(id, Len(archives) + 1) = 1
    /\ \A n \in 1..(Len(archives) + 1) : WholeLines(Files[n])

C5_Witness ==
    /\ Len(archives) >= 2
    /\ archives[2].content # <<>>
    /\ active # <<>>
    /\ nwritten = 3

(* C6: under the non-decreasing clock, the stamps of the archives of one    *)
(* sink in a fixed time mode are pairwise distinct.                         *)
C6_StampsDistinct ==
    \A i, j \in 1..Len(archives) :
        i # j => archives[i].stamp # archives[j].stamp

C6_Witness ==
    /\ Len(archives) >= 2
    /\ DayNumber(archives[1].openedCal) = DayNumber(archives[2].openedCal)

(* C8: every line stored in an archive was written within the calendar      *)
(* period (hour, day or month, per the mode) that the archive's stamp names.*)
C8_ArchiveCoversItsPeriod ==
    \A i \in 1..Len(archives) :
        \A id \in LinesOf(archives[i].content) :
            StampValue(archives[i].stamp) = PeriodNumber(mode, writtenAt[id])

(* C9: the stamp is computed from the open time only: YYYYMMDDHH for HOUR,  *)
(* YYYYMMDD for DAY, YYYYMM for MONTH, and the stamp of a coarser mode is a *)
(* prefix of the stamp of a finer mode for the same open time.              *)
C9_StampOfOpenTime ==
    /\ \A i \in 1..Len(archives) :
          /\ Len(archives[i].stamp) = StampLen(mode)
          /\ StampValue(archives[i].stamp) = PeriodNumber(mode, archives[i].openedCal)
    /\ \A m \in MODES :
          /\ Len(getbackup_with_time(opened_at, m)) = StampLen(m)
          /\ StampValue(getbackup_with_time(opened_at, m)) = PeriodNumber(m, openedCal)
    /\ IsPrefix(getbackup_with_time(opened_at, "MONTH"),
                getbackup_with_time(opened_at, "DAY"))
    /\ IsPrefix(getbackup_with_time(opened_at, "DAY"),
                getbackup_with_time(opened_at, "HOUR"))

\* an archive whose stamp differs from the stamp of the rotation instant
C9_Witness ==
    /\ Len(archives) >= 1
    /\ mode = "HOUR"
    /\ StampValue(archives[1].stamp) # PeriodNumber(mode, archives[1].rotatedCal)
    /\ archives[1].content # <<>>

----------------------------------------------------------------------------
(* Properties of gzip and async_gzip (under SpecGzip)                       *)

CLAIMED_FAILURES == {"open", "read", "encode", "finish", "create", "write"}

(* C3: in every state of gzip and of async_gzip, the source file has been   *)
(* removed only if <source>.gz holds the compressed bytes of the whole      *)
(* source content, and no step (read, encode, create, write) has failed.    *)
C3_RemovedOnlyAfterCompleteArchive ==
    \A f \in FLAVORS :
        disk[f].src = Absent =>
            /\ disk[f].gz = GzEncode(src0)
            /\ failed[f] \notin CLAIMED_FAILURES

(* C4: if a step of gzip or async_gzip failed, then afterwards the source   *)
(* still exists unchanged and no partial <source>.gz is left on disk.       *)
C4_FailureLeavesNoPartialArchive ==
    \A f \in FLAVORS :
        (pc[f] = "done" /\ failed[f] \in CLAIMED_FAILURES) =>
            /\ disk[f].src = src0
            /\ disk[f].gz \in {Absent, gz0}

(* C7: a <source>.gz that exists when the compression starts keeps its      *)
(* content: it is never overwritten or truncated.                           *)
C7_ExistingArchivePreserved ==
    \A f \in FLAVORS :
        (gz0 # Absent /\ pc[f] # "idle") => disk[f].gz = gz0

(* C10: for the same source file and the same failure point, gzip and       *)
(* async_gzip return the same outcome and leave the same files.             *)
C10_SyncAsyncAgree ==
    (pc["sync"] = "done" /\ pc["async"] = "done") =>
        /\ ret["sync"] = ret["async"]
        /\ disk["sync"] = disk["async"]

(* C11: gzip and async_gzip return Ok only when <source>.gz holds the       *)
(* complete compressed source, and Err whenever it does not.                *)
C11_OkIffArchiveComplete ==
    \A f \in FLAVORS :
        pc[f] = "done" => (ret[f] = "Ok" <=> disk[f].gz = GzEncode(src0))

----------------------------------------------------------------------------
(* Properties of the sink under an unbounded clock (under Spec)             *)

RECURSIVE HoursAhead(_, _)
HoursAhead(c, n) ==
    IF n = 0 THEN {} ELSE {NextHour(c)} \cup HoursAhead(NextHour(c), n - 1)

RECURSIVE DaysAhead(_, _)
DaysAhead(c, n) ==
    IF n = 0 THEN {} ELSE {NextDay(c)} \cup DaysAhead(NextDay(c), n - 1)

\* The first day of the month after c's, at c's time of day
NextMonth(c) ==
    IF c.month < 12 THEN [c EXCEPT !.day = 1, !.month = @ + 1]
    ELSE [c EXCEPT !.day = 1, !.month = 1, !.year = @ + 1]

RECURSIVE MonthsAhead(_, _)
MonthsAhead(c, n) ==
    IF n = 0 THEN {} ELSE {NextMonth(c)} \cup MonthsAhead(NextMonth(c), n - 1)

\* Later instants that between them show every hour of the day (the next 24
\* hours), every day of this month and the next (the next 62 days) and every
\* month of the year (the next 12 months).
LaterInstants(c) == HoursAhead(c, 24) \cup DaysAhead(c, 62) \cup MonthsAhead(c, 12)

(* C14: in every time mode and whatever the open time, there is a later     *)
(* instant at which passtimemode(opened_at, mode) is true, so a sink that   *)
(* keeps receiving writes is eventually rotated.                            *)
C14_RotationEventuallyDue ==
    \E c \in LaterInstants(now) : passtimemode_at(opened_at, mode, c)

----------------------------------------------------------------------------
(* Properties of the logging macros (under SpecLog and FairSpecLog)         *)

\* The thread is past the level check of its invocation.
Checked(t) == lpc[t] \in {"fmt", "fmted", "end"}

\* The thread is between the acquisition and the release of the lock.
InSection(t) == lpc[t] \in {"locked", "fmt", "fmted", "end"}

\* The place of invocation n in the order of lock acquisitions
Place(n) == CHOOSE i \in 1..Len(acquired) : acquired[i] = n

(* C12: an invocation at level L under threshold T calls fmt and print only *)
(* if T <= L; a threshold of Off suppresses every invocation; print is not  *)
(* called when fmt returned an empty line.                                  *)
C12_ThresholdGuardsFmtAndPrint ==
    \A t \in THREADS :
        Checked(t) =>
            /\ (lpc[t] # "end" \/ call[t].fmtCalled) => call[t].seen <= call[t].level
            /\ call[t].printCalled => (call[t].fmtCalled /\ call[t].ss # <<>>)
            /\ call[t].seen = Off => (lpc[t] = "end" /\ ~call[t].fmtCalled)

(* C13: at no time are two invocations both between lock and release; the   *)
(* threshold seen by the level check is the one in force until the release; *)
(* lines reach print whole and in the order of the lock acquisitions.       *)
C13_OneCriticalSection ==
    /\ Cardinality({t \in THREADS : InSection(t)}) <= 1
    /\ \A t \in THREADS : InSection(t) => lockHolder = t
    /\ \A t \in THREADS : Checked(t) => call[t].seen = threshold
    /\ \A i \in 1..Len(printed) :
          /\ Len(printed[i]) = 1
          /\ \E k \in 1..Len(acquired) : acquired[k] = printed[i][1]
    /\ \A i, j \in 1..Len(printed) :
          i < j => Place(printed[i][1]) < Place(printed[j][1])

\* the second caller took the lock first, and both lines were printed
C13_Witness ==
    /\ Len(printed) >= 2
    /\ printed[1][1] > printed[2][1]

----------------------------------------------------------------------------
(* Properties of parse_and_format_log (under SpecParse)                     *)

\* The least index of character ch in s at or after from, 0 if there is none
IndexFrom(s, ch, from) ==
    LET hits == {i \in from..Len(s) : s[i] = ch}
    IN  IF hits = {} THEN 0 ELSE CHOOSE i \in hits : \A k \in hits : i <= k

\* What a placeholder name stands for
ValueOf(name) ==
    CASE name = W_level   -> args.level
      [] name = W_time    -> args.time
      [] name = W_file    -> args.file
      [] name = W_message -> args.message
      [] OTHER            -> <<>>

\* The output as the text is read: up to the first `{` the text itself; then
\* the value of the name that ends at the next `}`, and the same for what
\* follows that `}`; nothing more if that `}` is missing.
RECURSIVE Expected(_)
Expected(s) ==
    LET open == IndexFrom(s, "{", 1)
    IN  IF open = 0 THEN s
        ELSE LET close == IndexFrom(s, "}", open + 1)
             IN  IF close = 0 THEN SubSeq(s, 1, open - 1)
                 ELSE SubSeq(s, 1, open - 1)
                        \o ValueOf(SubSeq(s, open + 1, close - 1))
                        \o Expected(SubSeq(s, close + 1, Len(s)))

(* C16: characters outside braces are copied in order; `{name}` is replaced *)
(* by the level, time, file or message argument when name is one of those   *)
(* four words and by nothing otherwise; a `}` outside a placeholder is      *)
(* copied; what follows an unclosed `{` is dropped; values are inserted     *)
(* verbatim, never rescanned.                                               *)
C16_TwoStateScan ==
    /\ returned # NotReturned => returned = Expected(format_str)
    /\ in_placeholder \in BOOLEAN
    /\ ~in_placeholder => placeholder = <<>>

\* `{message}` with a message that itself holds a placeholder
C16_Witness ==
    /\ returned # NotReturned
    /\ format_str = <<"{">> \o W_message \o <<"}">>
    /\ args.message = <<"{">> \o W_time \o <<"}">>
    /\ returned = args.message

====
